---- MODULE Spec2Model ----
(***************************************************************************)
(* A model of the tetris engine of tetris_tui: the Piece value type        *)
(* (src/game/shape.rs) and the TetrisBoard state machine                   *)
(* (src/game/tetris.rs).                                                   *)
(*                                                                         *)
(* A Cell is a pair <<column, row>>.  A Piece is a record                  *)
(* [shape, positions, pivot]; positions is a set of cells (a HashSet in    *)
(* the source).  The coordinates the model reaches are tiny, so i32        *)
(* arithmetic never wraps and is modelled by Int.                          *)
(***************************************************************************)
EXTENDS Integers, Sequences, FiniteSets

VARIABLES
    width,          \* TetrisBoard.width
    height,         \* TetrisBoard.height
    current_piece,  \* TetrisBoard.current_piece
    landed_pieces,  \* TetrisBoard.landed_pieces (a Vec<Piece>)
    alive,          \* TetrisBoard.alive
    last            \* history: the last call and the board it was made on

vars == <<width, height, current_piece, landed_pieces, alive, last>>

-----------------------------------------------------------------------------
(* Bounds of the model *)

\* The boards constructed.  The templates reach from column -1 to column 3
\* and from row 0 to row 2 around the spawn cell, so the widths below cover
\* both sides of every threshold of the spawn ((width - 1) / 2 = 0, spawn
\* column + 3 >= width, and the first width at which every template fits)
\* and the heights cover boards shorter than, and as tall as, the tallest
\* template.
Widths == 1..6
Heights == 1..3
\* a tick that would land a piece is taken only while fewer than MaxLanded
\* pieces have landed
MaxLanded == 2
\* SpecPiece, SpecRemove: templates are translated by -MaxOffset..MaxOffset in each axis
MaxOffset == 2
\* SpecTick: the boards of the tick-only driver, on which every spawn is in
\* bounds, and a cap on landings that no run of that driver reaches
TickWidths == 6..7
TickHeights == 3..4
MaxTickLanded == 5
\* SpecRemove: at most MaxRemovals remove_cell calls are applied to a piece
MaxRemovals == 2
\* SpecPiece: at most MaxRotations rotations are applied in a row
MaxRotations == 4

-----------------------------------------------------------------------------
(* shape.rs *)

Shapes == {"I", "O", "T", "J", "L", "S", "Z"}

Directions == {"Left", "Right"}

CellAdd(c, rhs) == <<c[1] + rhs[1], c[2] + rhs[2]>>

new_piece(s, cells, p) == [shape |-> s, positions |-> cells, pivot |-> p]

PieceNew(shape) ==
    CASE shape = "I" -> new_piece("I", {<<0, 0>>, <<1, 0>>, <<2, 0>>, <<3, 0>>}, <<1, 0>>)
      [] shape = "O" -> new_piece("O", {<<0, 0>>, <<1, 0>>, <<0, 1>>, <<1, 1>>}, <<0, 0>>)
      [] shape = "T" -> new_piece("T", {<<0, 0>>, <<1, 0>>, <<2, 0>>, <<1, 1>>}, <<1, 0>>)
      [] shape = "J" -> new_piece("J", {<<0, 0>>, <<0, 1>>, <<0, 2>>, <<-1, 2>>}, <<0, 1>>)
      [] shape = "L" -> new_piece("L", {<<0, 0>>, <<0, 1>>, <<0, 2>>, <<1, 2>>}, <<0, 1>>)
      [] shape = "S" -> new_piece("S", {<<0, 0>>, <<1, 0>>, <<0, 1>>, <<-1, 1>>}, <<0, 0>>)
      [] shape = "Z" -> new_piece("Z", {<<0, 0>>, <<-1, 0>>, <<0, 1>>, <<1, 1>>}, <<0, 0>>)

has_position(piece, cell) == cell \in piece.positions

\* mutation: two pieces collide only when they share a pivot
collides_with_pivot(piece, other) == piece.pivot = other.pivot

\* mutation: two pieces collide only when they share more than one cell
collides_with_more_than_one(piece, other) ==
    Cardinality(piece.positions \cap other.positions) > 1

collides_with(piece, other) ==
    Cardinality(piece.positions \cap other.positions) > 0

\* mutation: the column of a rotated cell is computed from x instead of y
PieceRotate_from_x(piece) ==
    LET a == piece.pivot[1]
        b == piece.pivot[2]
    IN  [shape |-> piece.shape,
         positions |-> {<<a + b - c[1], b - a + c[1]>> : c \in piece.positions},
         pivot |-> piece.pivot]

\* mutation: the quarter turn goes the other way round
PieceRotate_reversed(piece) ==
    LET a == piece.pivot[1]
        b == piece.pivot[2]
    IN  [shape |-> piece.shape,
         positions |-> {<<a - b + c[2], a + b - c[1]>> : c \in piece.positions},
         pivot |-> piece.pivot]

PieceRotate(piece) ==
    LET a == piece.pivot[1]
        b == piece.pivot[2]
    IN  [shape |-> piece.shape,
         positions |-> {<<a + b - c[2], b - a + c[1]>> : c \in piece.positions},
         pivot |-> piece.pivot]

\* mutation: the cells of row y are deleted and the cells above stay put
remove_cell_no_shift(piece, y) ==
    [piece EXCEPT !.positions = {p \in piece.positions : p[2] # y}]

\* mutation: every cell that is left moves down, whichever side of y it is
remove_cell_shift_all(piece, y) ==
    [piece EXCEPT !.positions =
        {<<pos[1], pos[2] + 1>> : pos \in {p \in piece.positions : p[2] # y}}]

remove_cell(piece, y) ==
    [piece EXCEPT !.positions =
        {IF pos[2] >= y THEN pos ELSE <<pos[1], pos[2] + 1>> :
            pos \in {p \in piece.positions : p[2] # y}}]

\* mutation: the cells are translated, the pivot is not
PieceAdd_cells_only(piece, rhs) ==
    [shape |-> piece.shape,
     positions |-> {CellAdd(pos, rhs) : pos \in piece.positions},
     pivot |-> piece.pivot]

PieceAdd(piece, rhs) ==
    [shape |-> piece.shape,
     positions |-> {CellAdd(pos, rhs) : pos \in piece.positions},
     pivot |-> CellAdd(piece.pivot, rhs)]

-----------------------------------------------------------------------------
(* tetris.rs *)

\* mutation: column width is taken to be on the board
is_out_of_bounds_inclusive(piece) ==
    ~ \A cell \in piece.positions :
        0 <= cell[1] /\ cell[1] <= width /\ 0 <= cell[2] /\ cell[2] < height

is_out_of_bounds(piece) ==
    ~ \A cell \in piece.positions :
        0 <= cell[1] /\ cell[1] < width /\ 0 <= cell[2] /\ cell[2] < height

\* mutation: the current piece collides with no landed piece
is_colliding_never(landed, piece) == FALSE

\* mutation: all() in place of any()
is_colliding_all(landed, piece) ==
    \A i \in 1..Len(landed) : collides_with(landed[i], piece)

is_colliding(landed, piece) ==
    \E i \in 1..Len(landed) : collides_with(landed[i], piece)

\* mutation: a row counts as full one cell early
is_line_full_nearly(landed, y) ==
    Cardinality(UNION {{cell \in landed[i].positions : cell[2] = y} :
                          i \in 1..Len(landed)}) >= width - 1

is_line_full(landed, y) ==
    Cardinality(UNION {{cell \in landed[i].positions : cell[2] = y} :
                          i \in 1..Len(landed)}) = width

\* mutation: a piece left with no cell is dropped from the list
remove_line_pruning(landed, y) ==
    SelectSeq([i \in 1..Len(landed) |-> remove_cell(landed[i], y)],
              LAMBDA piece : piece.positions # {})

remove_line(landed, y) ==
    [i \in 1..Len(landed) |-> remove_cell(landed[i], y)]

RECURSIVE remove_full_lines_from(_, _)
remove_full_lines_from(landed, y) ==
    IF y >= height
    THEN landed
    ELSE remove_full_lines_from(
             IF is_line_full(landed, y) THEN remove_line(landed, y) ELSE landed,
             y + 1)

\* mutation: the rows are scanned from the bottom row up
RECURSIVE remove_full_lines_upwards_from(_, _)
remove_full_lines_upwards_from(landed, y) ==
    IF y < 0
    THEN landed
    ELSE remove_full_lines_upwards_from(
             IF is_line_full(landed, y) THEN remove_line(landed, y) ELSE landed,
             y - 1)

remove_full_lines_upwards(landed) ==
    remove_full_lines_upwards_from(landed, height - 1)

remove_full_lines(landed) == remove_full_lines_from(landed, 0)

\* the same loop, observed: the rows it removes, in order, each with the
\* landed list as it is when remove_line is called
RECURSIVE removed_lines_from(_, _)
removed_lines_from(landed, y) ==
    IF y >= height
    THEN <<>>
    ELSE IF is_line_full(landed, y)
         THEN <<[y |-> y, before |-> landed]>>
                  \o removed_lines_from(remove_line(landed, y), y + 1)
         ELSE removed_lines_from(landed, y + 1)

removed_lines(landed) == removed_lines_from(landed, 0)

\* mutation: the spawn column is width / 2
spawn_off_center(w, shape) == PieceAdd(PieceNew(shape), <<w \div 2, 0>>)

\* mutation: the spawn column is 1 on every board
spawn_at_left(w, shape) == PieceAdd(PieceNew(shape), <<1, 0>>)

\* &Piece::random_piece() + Cell((width - 1) / 2, 0), for the shape drawn
spawn(w, shape) == PieceAdd(PieceNew(shape), <<(w - 1) \div 2, 0>>)

\* mutation: the test of alive is missing
returns_early_never == FALSE

\* if !self.alive { return; }
returns_early == ~alive

\* mutation: a tick moves the piece down by two rows
advanced_piece_by_two == PieceAdd(current_piece, <<0, 2>>)

advanced_piece == PieceAdd(current_piece, <<0, 1>>)

\* mutation: the piece pushed is the advanced one
landed_piece_advanced == advanced_piece

\* the piece mem::replace hands back: the current piece, as it was
landed_piece == current_piece

shift_delta(direction) ==
    IF direction = "Left" THEN <<-1, 0>> ELSE <<1, 0>>

shifted_piece(direction) == PieceAdd(current_piece, shift_delta(direction))

\* mutation: the collision test is missing
can_commit_in_bounds(piece) == ~is_out_of_bounds(piece)

\* the test guarding the commit of a shift or a rotation
can_commit(piece) ==
    ~is_out_of_bounds(piece) /\ ~is_colliding(landed_pieces, piece)

\* mutation: a wall kick, one column to the left, when the rotation is refused
rotated_piece_kicked ==
    IF can_commit(PieceRotate(current_piece))
    THEN PieceRotate(current_piece)
    ELSE PieceAdd(PieceRotate(current_piece), <<-1, 0>>)

rotated_piece == PieceRotate(current_piece)

\* self.landed_pieces.iter().find(|piece| piece.has_position(cell)), from
\* index i on: the first piece that has the cell, as a list of at most one
RECURSIVE find_from(_, _, _)
find_from(landed, cell, i) ==
    IF i > Len(landed)
    THEN <<>>
    ELSE IF has_position(landed[i], cell)
         THEN <<landed[i]>>
         ELSE find_from(landed, cell, i + 1)

\* mutation: the landed pieces are looked up before the current piece
get_landed_first(cell) ==
    IF find_from(landed_pieces, cell, 1) # <<>>
    THEN find_from(landed_pieces, cell, 1)[1].shape
    ELSE IF has_position(current_piece, cell)
         THEN current_piece.shape
         ELSE "None"

\* Option<Shape>: a shape tag, or "None"
get(cell) ==
    IF has_position(current_piece, cell)
    THEN current_piece.shape
    ELSE IF find_from(landed_pieces, cell, 1) # <<>>
         THEN find_from(landed_pieces, cell, 1)[1].shape
         ELSE "None"

\* the history of a call: the board it was made on; for a landing tick the
\* landed list right after the push (before remove_full_lines) and the rows
\* then removed; the number of landing ticks so far; the number of ticks
\* the current piece has been advanced by since it was spawned; and whether
\* every piece landed so far lay on the board when it landed
Call(op, dir, landing, pushed) ==
    [op |-> op, dir |-> dir, piece |-> current_piece, landed |-> landed_pieces,
     alive |-> alive, landing |-> landing, pushed |-> pushed,
     removed |-> IF landing THEN removed_lines(pushed) ELSE <<>>,
     landings |-> IF landing THEN last.landings + 1 ELSE last.landings,
     ticks |-> IF op = "tick" /\ alive
               THEN IF landing THEN 0 ELSE last.ticks + 1
               ELSE last.ticks,
     onboard |-> /\ last.onboard
                 /\ landing => \A c \in current_piece.positions :
                                   /\ 0 <= c[1] /\ c[1] < width
                                   /\ 0 <= c[2] /\ c[2] < height]

TetrisBoardNew(w, h, shape) ==
    /\ width = w
    /\ height = h
    /\ current_piece = spawn(w, shape)
    /\ landed_pieces = <<>>
    /\ alive = TRUE
    /\ last = [op |-> "new", dir |-> "None", piece |-> spawn(w, shape),
               landed |-> <<>>, alive |-> TRUE, landing |-> FALSE,
               pushed |-> <<>>, removed |-> <<>>, landings |-> 0, ticks |-> 0,
               onboard |-> TRUE]

\* tick(), landing a piece only while fewer than cap pieces have landed
tick_within(cap) ==
    /\ UNCHANGED <<width, height>>
    /\ IF returns_early
       THEN /\ UNCHANGED <<current_piece, landed_pieces, alive>>
            /\ last' = Call("tick", "None", FALSE, landed_pieces)
       ELSE IF is_out_of_bounds(advanced_piece)
               \/ is_colliding(landed_pieces, advanced_piece)
            THEN /\ Len(landed_pieces) < cap
                 /\ \E shape \in Shapes :
                      LET pushed == Append(landed_pieces, landed_piece)
                      IN  /\ current_piece' = spawn(width, shape)
                          /\ landed_pieces' = remove_full_lines(pushed)
                          /\ alive' = IF is_colliding(landed_pieces', current_piece')
                                      THEN FALSE ELSE alive
                          /\ last' = Call("tick", "None", TRUE, pushed)
            ELSE /\ current_piece' = advanced_piece
                 /\ UNCHANGED <<landed_pieces, alive>>
                 /\ last' = Call("tick", "None", FALSE, landed_pieces)

tick == tick_within(MaxLanded)

shift(direction) ==
    /\ UNCHANGED <<width, height, landed_pieces, alive>>
    /\ last' = Call("shift", direction, FALSE, landed_pieces)
    /\ IF returns_early
       THEN UNCHANGED current_piece
       ELSE IF can_commit(shifted_piece(direction))
            THEN current_piece' = shifted_piece(direction)
            ELSE UNCHANGED current_piece

rotate ==
    /\ UNCHANGED <<width, height, landed_pieces, alive>>
    /\ last' = Call("rotate", "None", FALSE, landed_pieces)
    /\ IF returns_early
       THEN UNCHANGED current_piece
       ELSE IF can_commit(rotated_piece)
            THEN current_piece' = rotated_piece
            ELSE UNCHANGED current_piece

Init ==
    \E w \in Widths, h \in Heights, shape \in Shapes :
        TetrisBoardNew(w, h, shape)

Next ==
    \/ tick
    \/ \E direction \in Directions : shift(direction)
    \/ rotate

Spec == Init /\ [][Next]_vars

\* run_game_loop calls tick whenever tick_rate has elapsed since the last
\* tick, whatever keys arrive in between: tick is not postponed for ever
SpecFair == Spec /\ WF_vars(tick)

\* ---- the driver that only calls tick ----
\* run_game_loop with no key pressed: poll times out and tick is called

InitTick ==
    \E w \in TickWidths, h \in TickHeights, shape \in Shapes :
        TetrisBoardNew(w, h, shape)

NextTick == tick_within(MaxTickLanded)

SpecTick == InitTick /\ [][NextTick]_vars /\ WF_vars(NextTick)

-----------------------------------------------------------------------------
(* ui/mod.rs: the renderer, the one caller of get *)

convert_index_to_cords(index, w) == <<index % w, index \div w>>

\* draw_game_board: get for the cell of every index, in one frame
draw_game_board ==
    /\ UNCHANGED <<width, height, current_piece, landed_pieces, alive>>
    /\ last' = [op |-> "draw", dir |-> "None", piece |-> current_piece,
                landed |-> landed_pieces, alive |-> alive, landing |-> FALSE,
                pushed |-> landed_pieces, removed |-> <<>>,
                landings |-> last.landings, ticks |-> last.ticks,
                onboard |-> last.onboard,
                shown |-> [index \in 0..(width * height - 1) |->
                              get(convert_index_to_cords(index, width))]]

NextDraw ==
    \/ Next
    \/ draw_game_board

SpecDraw == Init /\ [][NextDraw]_vars

-----------------------------------------------------------------------------
(* Piece on its own: a template, translated, under repeated rotate() *)

PieceCall(op, origin, n) ==
    [op |-> op, piece |-> current_piece, origin |-> origin, n |-> n]

InitPiece ==
    \E shape \in Shapes, dx \in -MaxOffset..MaxOffset, dy \in -MaxOffset..MaxOffset :
        /\ current_piece = PieceAdd(PieceNew(shape), <<dx, dy>>)
        /\ last = [op |-> "new", piece |-> current_piece,
                   origin |-> current_piece, n |-> 0]
        /\ width = 10
        /\ height = 20
        /\ landed_pieces = <<>>
        /\ alive = TRUE

PieceRotateStep ==
    /\ last.n < MaxRotations
    /\ current_piece' = PieceRotate(current_piece)
    /\ last' = PieceCall("rotate", last.origin, last.n + 1)
    /\ UNCHANGED <<width, height, landed_pieces, alive>>

NextPiece == PieceRotateStep

SpecPiece == InitPiece /\ [][NextPiece]_vars

\* ---- a single piece under remove_cell ----
\* the pieces remove_cell is called on: a template, translated and turned

RECURSIVE RotatedTimes(_, _)
RotatedTimes(piece, n) ==
    IF n = 0 THEN piece ELSE RotatedTimes(PieceRotate(piece), n - 1)

\* the rows around a piece: from the row above its top row to the row below
\* its bottom row (row 0 for a piece with no cell left)
RowsAround(piece) ==
    LET rows == {c[2] : c \in piece.positions}
        top == CHOOSE r \in rows : \A q \in rows : r <= q
        bottom == CHOOSE r \in rows : \A q \in rows : r >= q
    IN  IF rows = {} THEN {0} ELSE (top - 1)..(bottom + 1)

InitRemove ==
    \E shape \in Shapes, dx \in -MaxOffset..MaxOffset, dy \in -MaxOffset..MaxOffset,
       n \in 0..3 :
        /\ current_piece = RotatedTimes(PieceAdd(PieceNew(shape), <<dx, dy>>), n)
        /\ last = [op |-> "new", piece |-> current_piece, y |-> 0, n |-> 0]
        /\ width = 10
        /\ height = 20
        /\ landed_pieces = <<>>
        /\ alive = TRUE

RemoveCellStep ==
    /\ last.n < MaxRemovals
    /\ \E y \in RowsAround(current_piece) :
           /\ current_piece' = remove_cell(current_piece, y)
           /\ last' = [op |-> "remove_cell", piece |-> current_piece,
                       y |-> y, n |-> last.n + 1]
    /\ UNCHANGED <<width, height, landed_pieces, alive>>

NextRemove == RemoveCellStep

SpecRemove == InitRemove /\ [][NextRemove]_vars

-----------------------------------------------------------------------------
(* Vocabulary of the properties, stated on cells rather than with the      *)
(* operators of the model                                                  *)

\* the cells of all the pieces of a landed list
CellsOf(landed) == UNION {landed[i].positions : i \in 1..Len(landed)}

InBoard(cell) ==
    0 <= cell[1] /\ cell[1] < width /\ 0 <= cell[2] /\ cell[2] < height

\* piece moved by (dx, dy), pivot included
Moved(piece, dx, dy) ==
    [shape |-> piece.shape,
     positions |-> {<<c[1] + dx, c[2] + dy>> : c \in piece.positions},
     pivot |-> <<piece.pivot[1] + dx, piece.pivot[2] + dy>>]

\* piece turned by a quarter about its pivot (a, b): (x, y) -> (a+b-y, b-a+x)
Turned(piece) ==
    [shape |-> piece.shape,
     positions |-> {<<piece.pivot[1] + piece.pivot[2] - c[2],
                      piece.pivot[2] - piece.pivot[1] + c[1]>> : c \in piece.positions},
     pivot |-> piece.pivot]

\* piece may be placed on the board the last call was made on
Free(piece) ==
    /\ \A c \in piece.positions : InBoard(c)
    /\ piece.positions \cap CellsOf(last.landed) = {}

\* the seven templates at the spawn position
SpawnPieces ==
    {Moved(PieceNew(shape), (width - 1) \div 2, 0) : shape \in Shapes}

LandingTick == last.op = "tick" /\ last.alive /\ last.landing

\* every column of row y of the board holds a cell of the landed list
RowOccupied(landed, y) ==
    \A x \in 0..(width - 1) : <<x, y>> \in CellsOf(landed)

-----------------------------------------------------------------------------
(* C1: while the board is alive, no cell of the current piece is a cell of *)
(* a landed piece, in every state reached by tick, shift and rotate calls  *)
(* (the state right after a landing tick included).                        *)
C1_NoOverlap ==
    alive => current_piece.positions \cap CellsOf(landed_pieces) = {}

\* a landing tick has removed a line, cells remain, and the board lives on
C1_Witness ==
    /\ LandingTick
    /\ alive
    /\ landed_pieces # last.pushed
    /\ CellsOf(landed_pieces) # {}

(* C2, as amended: on a board of width >= 6 and height >= 3, while alive   *)
(* every cell of the current piece lies in [0,width) x [0,height).         *)
C2_InBoundsOnWideBoards ==
    (width >= 6 /\ height >= 3 /\ alive)
        => \A c \in current_piece.positions : InBoard(c)

\* a piece spawned by a landing tick on such a board
C2_Witness ==
    /\ width >= 6 /\ height >= 3
    /\ LandingTick
    /\ alive

\* C2 as stated: on a board of any width >= 1 and height >= 1
C2_Original ==
    (width >= 1 /\ height >= 1 /\ alive)
        => \A c \in current_piece.positions : InBoard(c)

(* C3: alive starts true; a call made on a dead board leaves alive, the    *)
(* current piece (cells, pivot, shape) and the landed list as they were,   *)
(* so alive never becomes true again.                                      *)
C3_DeathTerminal ==
    /\ last.op = "new" => alive
    /\ (last.op # "new" /\ ~last.alive) =>
           /\ ~alive
           /\ current_piece = last.piece
           /\ landed_pieces = last.landed

\* a tick made on a dead board, whose piece could have moved on: the cells
\* below it are on the board and not landed
C3_Witness ==
    /\ ~last.alive
    /\ last.op = "tick"
    /\ Free(Moved(last.piece, 0, 1))

(* C4: a call turns alive from true to false if and only if it is a tick   *)
(* that lands the current piece and the piece then spawned shares a cell   *)
(* with the landed cells as remove_full_lines left them.                   *)
C4_DeathIffBlockedSpawn ==
    last.op # "new" =>
        ((last.alive /\ ~alive)
            <=> (/\ LandingTick
                 /\ current_piece \in SpawnPieces
                 /\ current_piece.positions \cap CellsOf(landed_pieces) # {}))

\* the board died on a blocked spawn
C4_Witness ==
    /\ LandingTick
    /\ ~alive
    /\ width >= 6 /\ height >= 3

\* a spawn that the landed cells blocked before the line removal, and not
\* after it: the board lives on
C4_WitnessCleared ==
    /\ LandingTick
    /\ alive
    /\ current_piece.positions \cap CellsOf(last.pushed) # {}

(* C5: a tick on an alive board moves the current piece by (0,+1) when the *)
(* moved piece is in-bounds and shares no cell with a landed piece, and    *)
(* then leaves the landed list and alive alone; otherwise it appends the   *)
(* un-moved current piece, and only it, to the landed list and spawns a    *)
(* new piece.  The landed list grows by at most one entry.                 *)
C5_Tick ==
    (last.op = "tick" /\ last.alive) =>
        /\ Len(landed_pieces) <= Len(last.landed) + 1
        /\ IF Free(Moved(last.piece, 0, 1))
           THEN /\ ~last.landing
                /\ current_piece = Moved(last.piece, 0, 1)
                /\ landed_pieces = last.landed
                /\ alive
           ELSE /\ last.landing
                /\ last.pushed = Append(last.landed, last.piece)
                /\ Len(landed_pieces) = Len(last.landed) + 1
                /\ \A i \in 1..Len(landed_pieces) :
                       landed_pieces[i].shape = last.pushed[i].shape
                /\ (\A y \in 0..(height - 1) : ~RowOccupied(last.pushed, y)
                        /\ Cardinality({c \in CellsOf(last.pushed) : c[2] = y}) # width)
                       => landed_pieces = Append(last.landed, last.piece)
                /\ current_piece \in SpawnPieces

\* a piece landed on another one (not on the floor) and no line was full
C5_Witness ==
    /\ LandingTick
    /\ Len(last.landed) >= 1
    /\ \A c \in Moved(last.piece, 0, 1).positions : InBoard(c)
    /\ landed_pieces = Append(last.landed, last.piece)

\* the landed list right after the push of a landing tick: all its cells on
\* the board, and y the one row with every column occupied
OnlyFullRow(y) ==
    /\ LandingTick
    /\ y \in 0..(height - 1)
    /\ \A c \in CellsOf(last.pushed) : InBoard(c)
    /\ \A r \in 0..(height - 1) : RowOccupied(last.pushed, r) <=> r = y

(* C6, as amended: when the landed cells all lie on the board and row y is *)
(* the only row with all width columns occupied, remove_full_lines (as run *)
(* by a landing tick) deletes the cells of row y, moves every landed cell  *)
(* with row < y down by exactly one row (so row y then holds the cells     *)
(* that were in row y-1, and is empty only if that row was) and leaves     *)
(* every landed cell with row > y as it was.                               *)
C6_LineClear ==
    \A y \in 0..(height - 1) :
        OnlyFullRow(y) =>
            /\ Len(landed_pieces) = Len(last.pushed)
            /\ \A i \in 1..Len(landed_pieces) :
                   landed_pieces[i].positions =
                       {c \in last.pushed[i].positions : c[2] > y}
                       \cup {<<c[1], c[2] + 1>> :
                                c \in {d \in last.pushed[i].positions : d[2] < y}}

\* a line cleared on a board where every spawn fits, with cells above it
C6_Witness ==
    /\ width >= 6 /\ height >= 3
    /\ \E y \in 0..(height - 1) :
           /\ OnlyFullRow(y)
           /\ \E c \in CellsOf(last.pushed) : c[2] = y - 1
           /\ \E c \in CellsOf(landed_pieces) : c[2] = y

\* C6 as stated, on the boards every spawn fits on: whenever row y has all
\* width columns occupied, afterwards row y holds no landed cell, the cells
\* above it are one row lower and the cells below it are unchanged
C6_Original ==
    \A y \in 0..(height - 1) :
        (/\ width >= 6 /\ height >= 3
         /\ LandingTick
         /\ RowOccupied(last.pushed, y)) =>
            /\ \A c \in CellsOf(landed_pieces) : c[2] # y
            /\ \A i \in 1..Len(last.pushed) :
                   \A c \in last.pushed[i].positions :
                       /\ c[2] < y => <<c[1], c[2] + 1>> \in landed_pieces[i].positions
                       /\ c[2] > y => c \in landed_pieces[i].positions

(* C7: a shift on an alive board replaces the current piece by its         *)
(* translation by (-1,0) for Left, (+1,0) for Right, if and only if the    *)
(* translation is in-bounds and shares no cell with a landed piece;        *)
(* otherwise the piece is as before.  The landed list and alive are        *)
(* unchanged either way.                                                   *)
C7_Shift ==
    (last.op = "shift" /\ last.alive) =>
        LET target == Moved(last.piece, IF last.dir = "Left" THEN -1 ELSE 1, 0)
        IN  /\ current_piece = IF Free(target) THEN target ELSE last.piece
            /\ landed_pieces = last.landed
            /\ alive

\* a shift refused because of a landed piece, not because of a wall
C7_Witness ==
    /\ last.op = "shift" /\ last.alive
    /\ last.dir = "Left"
    /\ current_piece = last.piece
    /\ \A c \in Moved(last.piece, -1, 0).positions : InBoard(c)

\* a shift committed next to landed cells
C7_WitnessCommitted ==
    /\ last.op = "shift" /\ last.alive
    /\ last.dir = "Right"
    /\ current_piece = Moved(last.piece, 1, 0)
    /\ landed_pieces # <<>>

\* the translations a wall kick could try
Kicks == {<<dx, dy>> \in (-2..2) \X (-2..2) : <<dx, dy>> # <<0, 0>>}

(* C8: a rotate on an alive board replaces the current piece by its pivot  *)
(* rotation if and only if every rotated cell is in-bounds and none is a   *)
(* landed cell; otherwise the board is unchanged, and no translated        *)
(* variant of the rotated piece is ever committed.  The landed list, alive *)
(* and the pivot are unchanged either way.                                 *)
C8_Rotate ==
    (last.op = "rotate" /\ last.alive) =>
        /\ current_piece = IF Free(Turned(last.piece))
                           THEN Turned(last.piece) ELSE last.piece
        /\ current_piece # last.piece <=> Free(Turned(last.piece))
        /\ \A k \in Kicks : current_piece # Moved(Turned(last.piece), k[1], k[2])
        /\ current_piece.pivot = last.piece.pivot
        /\ landed_pieces = last.landed
        /\ alive

\* a rotation refused although the rotated piece, kicked by one column,
\* would have been free
C8_Witness ==
    /\ last.op = "rotate" /\ last.alive
    /\ current_piece = last.piece
    /\ \E dx \in {-1, 1} : Free(Moved(Turned(last.piece), dx, 0))

(* C9: for each of the seven shapes and every translation of its template, *)
(* four rotate() calls in a row give back the cell set and the pivot of    *)
(* the original.                                                           *)
C9_RotationClosure ==
    last.n = 4 =>
        /\ current_piece.positions = last.origin.positions
        /\ current_piece.pivot = last.origin.pivot

\* four rotations applied, none of the three before gave the original back
C9_Witness ==
    /\ last.n = 4
    /\ last.piece.positions # last.origin.positions
    /\ last.origin.pivot # <<0, 0>>

(* C10: rotate() keeps the shape tag and the pivot (a, b), and its cell    *)
(* set is the image of the original's under (x,y) -> (a+b-y, b-a+x), with  *)
(* as many cells; the I template turns into {(1,-1),(1,0),(1,1),(1,2)}.    *)
C10_RotateMapsCells ==
    last.op = "rotate" =>
        /\ current_piece.shape = last.piece.shape
        /\ current_piece.pivot = last.piece.pivot
        /\ current_piece.positions = Turned(last.piece).positions
        /\ Cardinality(current_piece.positions) = Cardinality(last.piece.positions)
        /\ last.piece = PieceNew("I") =>
               current_piece.positions = {<<1, -1>>, <<1, 0>>, <<1, 1>>, <<1, 2>>}

\* the I template, pivot (1,0), rotated once
C10_Witness ==
    /\ last.op = "rotate"
    /\ last.piece = PieceNew("I")
    /\ last.n = 1

\* the cells a caller may ask get about: the board and a margin around it
\* (every board is drawn in every state it reaches, so the cells are asked
\* about where a frame has just been drawn)
Probes == (-2..(width + 1)) \X (-1..height)

\* the landed pieces that hold the cell, by index
Holders(cell) == {i \in 1..Len(landed_pieces) : cell \in landed_pieces[i].positions}

\* the least element of a non-empty set of indices
Least(S) == CHOOSE i \in S : \A j \in S : i <= j

\* what get is to return for the cell
Tag(cell) ==
    IF cell \in current_piece.positions
    THEN current_piece.shape
    ELSE IF Holders(cell) # {}
         THEN landed_pieces[Least(Holders(cell))].shape
         ELSE "None"

(* C11: get(cell) is the shape of the current piece when it occupies the   *)
(* cell (on a dead board too, where a landed piece may occupy it as well), *)
(* else the shape of the first landed piece in list order that occupies    *)
(* it, else nothing; it is something if and only if the cell is occupied;  *)
(* and a frame of get calls leaves the board as it was.                    *)
C11_Get ==
    last.op = "draw" =>
           /\ \A cell \in Probes :
                  LET tag == get(cell)
                  IN  /\ tag = Tag(cell)
                      /\ tag # "None" <=>
                             cell \in current_piece.positions \cup CellsOf(landed_pieces)
           /\ current_piece = last.piece
           /\ landed_pieces = last.landed
           /\ alive = last.alive
           /\ \A x \in 0..(width - 1), y \in 0..(height - 1) :
                  last.shown[y * width + x] = Tag(<<x, y>>)

\* a frame drawn of a dead board on which a cell of the board is held by the
\* current piece and by a landed piece of another shape
C11_Witness ==
    /\ last.op = "draw"
    /\ ~alive
    /\ \E cell \in current_piece.positions :
           /\ InBoard(cell)
           /\ Holders(cell) # {}
           /\ landed_pieces[Least(Holders(cell))].shape # current_piece.shape
           /\ last.shown[cell[2] * width + cell[1]] = current_piece.shape

\* the number of cells of the pieces of a landed list, piece by piece
RECURSIVE CellCount(_)
CellCount(landed) ==
    IF landed = <<>>
    THEN 0
    ELSE Cardinality(Head(landed).positions) + CellCount(Tail(landed))

\* row y holds exactly width distinct landed cells
RowCounted(landed, y) ==
    Cardinality({c \in CellsOf(landed) : c[2] = y}) = width

(* C12, as amended: in every reachable state whose landed cells all lie on *)
(* the board, the entries of landed_pieces that still hold their four      *)
(* cells number at most (width * height) / 4.  The number of entries is    *)
(* not bounded by that: an entry that lost cells to a line clear, or all   *)
(* of them, stays in the list.                                             *)
C12_WholePiecesBound ==
    (\A c \in CellsOf(landed_pieces) : InBoard(c)) =>
        Cardinality({i \in 1..Len(landed_pieces) :
                        Cardinality(landed_pieces[i].positions) = 4})
            <= (width * height) \div 4

\* more entries than (width * height) / 4, every piece having landed on the
\* board
C12_Witness ==
    /\ LandingTick
    /\ last.onboard
    /\ Len(landed_pieces) > (width * height) \div 4

\* C12 as stated, where every piece landed on the board: the number of
\* entries of landed_pieces is at most (width * height) / 4
C12_Original ==
    last.onboard => Len(landed_pieces) <= (width * height) \div 4

\* the rows of the board that are full in the list a landing tick pushed to
FullRows == {y \in 0..(height - 1) : RowCounted(last.pushed, y)}

(* C13: a landing tick whose remove_full_lines finds k >= 0 rows full (a   *)
(* row is full when it holds width distinct landed cells) leaves no row of *)
(* the board full, deletes the k * width cells of those rows and no other, *)
(* and moves every other landed cell down, in its column, by the number of *)
(* full rows below it.  So no row of the board is full in any state; on a  *)
(* board of height >= 3, where nothing lands below the board, no row is.   *)
C13_MultiRowClear ==
    /\ \A y \in 0..(height - 1) : ~RowCounted(landed_pieces, y)
    /\ height >= 3 => \A y \in 0..(height + 1) : ~RowCounted(landed_pieces, y)
    /\ LandingTick =>
           /\ Len(landed_pieces) = Len(last.pushed)
           /\ \A i \in 1..Len(landed_pieces) :
                  /\ landed_pieces[i].positions =
                         {<<c[1], c[2] + Cardinality({y \in FullRows : y > c[2]})>> :
                             c \in {d \in last.pushed[i].positions : d[2] \notin FullRows}}
                  /\ Cardinality(landed_pieces[i].positions) =
                         Cardinality({d \in last.pushed[i].positions : d[2] \notin FullRows})
           /\ CellCount(last.pushed) - CellCount(landed_pieces)
                  = Cardinality(FullRows) * width
           /\ Len(last.removed) = Cardinality(FullRows)

\* two rows cleared by one tick, every piece having landed on the board
C13_Witness ==
    /\ LandingTick
    /\ Cardinality(FullRows) = 2
    /\ last.onboard

\* one row cleared and a cell above it moved down by one
C13_WitnessMoved ==
    /\ LandingTick
    /\ Cardinality(FullRows) = 1
    /\ CellsOf(landed_pieces) # {}
    /\ \E c \in CellsOf(last.pushed) : \E y \in FullRows : c[2] < y

Disjoint(landed) ==
    \A i, j \in 1..Len(landed) :
        i # j => landed[i].positions \cap landed[j].positions = {}

(* C15, as amended: in every reachable state no cell belongs to two        *)
(* entries of landed_pieces, on every board; and on a board of width >= 6  *)
(* and height >= 3 every landed cell lies in [0,width) x [0,height).       *)
(* Landing a piece and removing lines preserve both.                       *)
C15_LandedWellFormed ==
    /\ Disjoint(landed_pieces)
    /\ Disjoint(last.pushed)
    /\ (width >= 6 /\ height >= 3) =>
           /\ \A c \in CellsOf(landed_pieces) : InBoard(c)
           /\ \A c \in CellsOf(last.pushed) : InBoard(c)

\* two pieces landed, a line removed, cells of both left
C15_Witness ==
    /\ width >= 6 /\ height >= 3
    /\ LandingTick
    /\ Len(last.removed) >= 1
    /\ Len(landed_pieces) = 2
    /\ landed_pieces[1].positions # {}
    /\ landed_pieces[2].positions # {}

\* C15 as stated: on every board, the landed cells lie on the board too
C15_Original ==
    /\ Disjoint(landed_pieces)
    /\ \A c \in CellsOf(landed_pieces) : InBoard(c)

(* C16: remove_cell(y) deletes exactly the cells of row y, moves every     *)
(* other cell with row < y to (col, row + 1), leaves every cell with       *)
(* row > y where it is, and leaves shape and pivot as they are; the piece  *)
(* then has as many cells as before less those that were in row y.         *)
C16_RemoveCell ==
    last.op = "remove_cell" =>
        LET before == last.piece.positions
            after == current_piece.positions
            y == last.y
            above == {c \in before : c[2] < y}
            in_row == {c \in before : c[2] = y}
            below == {c \in before : c[2] > y}
        IN  /\ \A c \in above : <<c[1], c[2] + 1>> \in after
            /\ \A c \in below : c \in after
            /\ \A d \in after :
                   \/ d \in below
                   \/ d[2] <= y /\ <<d[1], d[2] - 1>> \in above
            /\ \A c \in in_row : c \in after => <<c[1], c[2] - 1>> \in above
            /\ Cardinality(after) = Cardinality(before) - Cardinality(in_row)
            /\ current_piece.shape = last.piece.shape
            /\ current_piece.pivot = last.piece.pivot

\* a row removed from the middle of a piece: cells above it, in it, below it
C16_Witness ==
    /\ last.op = "remove_cell"
    /\ \E c \in last.piece.positions : c[2] < last.y
    /\ \E c \in last.piece.positions : c[2] = last.y
    /\ \E c \in last.piece.positions : c[2] > last.y
    /\ Cardinality(current_piece.positions) = 3

\* a second removal, from a piece that has already lost cells
C16_WitnessAgain ==
    /\ last.op = "remove_cell"
    /\ last.n = 2
    /\ Cardinality(last.piece.positions) < 4
    /\ Cardinality(current_piece.positions) < Cardinality(last.piece.positions)
    /\ current_piece.positions # {}

\* the template table: cells and pivot of each shape
TemplateCells ==
    [I |-> {<<0, 0>>, <<1, 0>>, <<2, 0>>, <<3, 0>>},
     O |-> {<<0, 0>>, <<1, 0>>, <<0, 1>>, <<1, 1>>},
     T |-> {<<0, 0>>, <<1, 0>>, <<2, 0>>, <<1, 1>>},
     J |-> {<<0, 0>>, <<0, 1>>, <<0, 2>>, <<-1, 2>>},
     L |-> {<<0, 0>>, <<0, 1>>, <<0, 2>>, <<1, 2>>},
     S |-> {<<0, 0>>, <<1, 0>>, <<0, 1>>, <<-1, 1>>},
     Z |-> {<<0, 0>>, <<-1, 0>>, <<0, 1>>, <<1, 1>>}]

TemplatePivot ==
    [I |-> <<1, 0>>, O |-> <<0, 0>>, T |-> <<1, 0>>, J |-> <<0, 1>>,
     L |-> <<0, 1>>, S |-> <<0, 0>>, Z |-> <<0, 0>>]

\* piece is the template of its shape translated by ((width - 1) div 2, 0)
AtSpawn(piece) ==
    LET dx == (width - 1) \div 2
    IN  /\ piece.shape \in {"I", "O", "T", "J", "L", "S", "Z"}
        /\ piece.positions =
               {<<c[1] + dx, c[2]>> : c \in TemplateCells[piece.shape]}
        /\ piece.pivot = <<TemplatePivot[piece.shape][1] + dx,
                           TemplatePivot[piece.shape][2]>>

\* the current piece cannot move down by one: the next tick lands it
Blocked ==
    \E c \in Moved(current_piece, 0, 1).positions :
        ~InBoard(c) \/ c \in CellsOf(landed_pieces)

(* C17: a new board is alive with no landed piece; at construction and     *)
(* after every landing tick the current piece is one of the seven          *)
(* templates of the table translated by ((width - 1) div 2, 0); and        *)
(* whatever was spawned before, a landing tick can spawn each of the seven *)
(* shapes.                                                                 *)
C17_Spawn ==
    /\ last.op = "new" =>
           alive /\ landed_pieces = <<>> /\ AtSpawn(current_piece)
    /\ LandingTick => AtSpawn(current_piece)
    /\ (alive /\ Blocked /\ Len(landed_pieces) < MaxLanded) =>
           \A s \in {"I", "O", "T", "J", "L", "S", "Z"} :
               ENABLED (tick /\ current_piece'.shape = s)

\* a landing tick on a board of even width that spawned the shape that had
\* just landed
C17_Witness ==
    /\ LandingTick
    /\ alive
    /\ width = 6
    /\ current_piece.shape = last.piece.shape
    /\ current_piece.shape = "J"

(* C18: in every reachable state the current piece has exactly 4 cells;   *)
(* every landed entry has between 0 and 4, has 4 when it is pushed, and    *)
(* has fewer afterwards only by a tick that removed a line: a call that    *)
(* is not a landing tick leaves the landed list as it was, and a landing   *)
(* tick that removes no line leaves it as pushed.                          *)
C18_CellCount ==
    /\ Cardinality(current_piece.positions) = 4
    /\ \A i \in 1..Len(landed_pieces) :
           Cardinality(landed_pieces[i].positions) \in 0..4
    /\ (last.op # "new" /\ ~LandingTick) => landed_pieces = last.landed
    /\ LandingTick =>
           /\ Len(last.pushed) = Len(last.landed) + 1
           /\ \A i \in 1..Len(last.landed) : last.pushed[i] = last.landed[i]
           /\ Cardinality(last.pushed[Len(last.pushed)].positions) = 4
           /\ \A i \in 1..Len(last.pushed) :
                  Cardinality(landed_pieces[i].positions)
                      <= Cardinality(last.pushed[i].positions)
           /\ last.removed = <<>> => landed_pieces = last.pushed

\* the current piece turned by a rotate call, on a board where every piece
\* fits, next to a landed entry that a line clear left with some of its cells
C18_Witness ==
    /\ width >= 6 /\ height >= 3
    /\ last.op = "rotate"
    /\ current_piece # last.piece
    /\ \E i \in 1..Len(landed_pieces) :
           Cardinality(landed_pieces[i].positions) \in 1..3

(* C19: the length of landed_pieces is the number of landing ticks so      *)
(* far and no call makes it smaller; every entry stays at its index with   *)
(* its shape and pivot, its cells staying in their columns and never       *)
(* moving up; an entry left with no cell stays in the list.                *)
C19_AppendOnly ==
    /\ Len(landed_pieces) = last.landings
    /\ last.op # "new" =>
           /\ Len(landed_pieces) >= Len(last.landed)
           /\ LandingTick <=> Len(landed_pieces) = Len(last.landed) + 1
           /\ \A i \in 1..Len(last.landed) :
                  /\ landed_pieces[i].shape = last.landed[i].shape
                  /\ landed_pieces[i].pivot = last.landed[i].pivot
                  /\ \A d \in landed_pieces[i].positions :
                         \E c \in last.landed[i].positions :
                             c[1] = d[1] /\ c[2] <= d[2]
    /\ LandingTick =>
           /\ landed_pieces[Len(landed_pieces)].shape = last.piece.shape
           /\ landed_pieces[Len(landed_pieces)].pivot = last.piece.pivot

\* a piece landed after an entry that line clears had left with no cell;
\* every piece landed on the board
C19_Witness ==
    /\ LandingTick
    /\ last.onboard
    /\ Len(last.landed) = 1
    /\ last.landed[1].positions = {}
    /\ Len(landed_pieces) = 2
    /\ landed_pieces[1].positions = {}
    /\ landed_pieces[2].positions # {}

\* what each call does to the pivot row, and how far a piece can have come:
\* the pivot row is the template's plus the ticks since the spawn, which are
\* fewer than height, and after height - 1 of them the next tick lands
C20_Steps ==
    /\ current_piece.pivot[2] = TemplatePivot[current_piece.shape][2] + last.ticks
    /\ (last.op = "tick" /\ last.alive /\ ~last.landing) =>
           /\ current_piece.pivot[2] = last.piece.pivot[2] + 1
           /\ current_piece.pivot[1] = last.piece.pivot[1]
    /\ last.op \in {"shift", "rotate"} =>
           current_piece.pivot[2] = last.piece.pivot[2]
    /\ last.ticks <= height - 1
    /\ (alive /\ last.ticks = height - 1) => Blocked

(* C20: while the board is alive every spawned piece lands by its          *)
(* height-th tick, whatever shift and rotate calls come in between: a tick *)
(* that does not land the piece raises the pivot row by exactly 1, shift   *)
(* and rotate leave it, and the pivot row stays on the board.  So, tick    *)
(* being called again and again, a live board lands its piece: the count   *)
(* of landings goes up (as long as the model takes landings).              *)
C20_BoundedLanding ==
    /\ []C20_Steps
    /\ \A n \in 0..(MaxLanded - 1) :
           (alive /\ last.landings = n) ~> (last.landings > n)

\* a piece turned and shifted on its way down, one tick short of the bound
C20_Witness ==
    /\ alive
    /\ height >= 3
    /\ last.ticks = height - 1
    /\ last.op = "shift"
    /\ current_piece # last.piece
    /\ current_piece.positions
           # Moved(PieceNew(current_piece.shape),
                   current_piece.pivot[1] - TemplatePivot[current_piece.shape][1],
                   last.ticks).positions

\* the piece landed by the tick that follows: its height-th
C20_WitnessLanded ==
    /\ LandingTick
    /\ height >= 3
    /\ last.piece.pivot[2] = height - 1

(* C21: in every reachable state the pivot of the current piece is one of *)
(* its cells: a tick or shift that moves the piece moves pivot and cells   *)
(* by the same vector, and a rotation leaves the pivot where it is and     *)
(* keeps a cell on it.  So while alive, on a board of width >= 6 and       *)
(* height >= 3, the pivot lies in [0,width) x [0,height).                  *)
C21_PivotMembership ==
    /\ current_piece.pivot \in current_piece.positions
    /\ (alive /\ width >= 6 /\ height >= 3) => InBoard(current_piece.pivot)
    /\ (last.op = "rotate" /\ last.alive) =>
           /\ current_piece.pivot = last.piece.pivot
           /\ last.piece.pivot \in last.piece.positions
    /\ (last.op \in {"tick", "shift"} /\ last.alive /\ ~last.landing) =>
           current_piece =
               Moved(last.piece,
                     current_piece.pivot[1] - last.piece.pivot[1],
                     current_piece.pivot[2] - last.piece.pivot[2])

\* a piece that has come down from its spawn row and was then turned by a
\* rotate call, on a board where every spawn is in bounds
C21_Witness ==
    /\ alive
    /\ width >= 6 /\ height >= 3
    /\ last.op = "rotate"
    /\ current_piece # last.piece
    /\ last.ticks >= 1
    /\ current_piece.pivot \in current_piece.positions

\* under ticks alone: the landed cells stay in the columns the templates
\* cover at the spawn, no row is removed, and every landed piece holds a
\* cell of its own in the spawn column, so fewer than height pieces have
\* landed while the board is alive
C22_Steps ==
    LET c == (width - 1) \div 2
    IN  /\ \A cell \in CellsOf(landed_pieces) :
               c - 1 <= cell[1] /\ cell[1] <= c + 3
        /\ last.removed = <<>>
        /\ LandingTick => landed_pieces = Append(last.landed, last.piece)
        /\ \A y \in 0..(height - 1) : ~is_line_full(landed_pieces, y)
        /\ \A i \in 1..Len(landed_pieces) :
               \E cell \in landed_pieces[i].positions : cell[1] = c
        /\ Len(landed_pieces) <= height
        /\ alive => Len(landed_pieces) < height

(* C22: on a board of width >= 6 and height >= 3, when only tick is        *)
(* called, landed cells only occupy the columns (width-1) div 2 - 1 to     *)
(* (width-1) div 2 + 3, no row is ever cleared, and whatever shapes are    *)
(* spawned the board is dead after finitely many ticks.                    *)
C22_TickOnly ==
    /\ []C22_Steps
    /\ <>(~alive)

\* a board killed by its height-th landing, the longest a run can last
C22_Witness ==
    /\ ~alive
    /\ LandingTick
    /\ height = 4
    /\ Len(landed_pieces) = height
    /\ \E cell \in CellsOf(landed_pieces) : cell[1] = (width - 1) \div 2 + 3

\* landed cells in the leftmost and in the rightmost column of the range
C22_WitnessColumns ==
    /\ LandingTick
    /\ \E cell \in CellsOf(landed_pieces) : cell[1] = (width - 1) \div 2 - 1
    /\ \E cell \in CellsOf(landed_pieces) : cell[1] = (width - 1) \div 2 + 3

====
